---- MODULE Spec2Model ----
(***************************************************************************)
(* A model of WikidataClient (src/src/wiki_utils/wikidata/__init__.py):    *)
(* the entity-metadata normalizer parse_entity_metadata with its helpers,  *)
(* the recursive relationship walker walk, and the identifier lookup       *)
(* get_qid_by_bdrc_work_id; and of split_and_save_subpages                 *)
(* (src/src/wiki_utils/wikisource/set_page_tag_link.py).                   *)
(*                                                                         *)
(* JSON values are tagged records: t is the Python type, and the payload   *)
(* is the field n of a number, s of a str, l of a list, d of a dict.       *)
(* A Python str is a sequence of one-character strings, so that            *)
(* startswith and the shape of an identifier are computed, not assumed.    *)
(* A Python dict is a function from key strings to JSON values.            *)
(* A Python exception is the pseudo-value Raise.                           *)
(***************************************************************************)
EXTENDS Integers, Sequences, FiniteSets, TLC

VARIABLES
    world,      \* the entity-data endpoint: qid -> response, fixed at the first fetch
    start,      \* the qid the caller passes to the top-level walk
    visited,    \* _visited of the walk in progress
    edges,      \* _edges of the walk in progress
    stack,      \* the call stack of walk: one frame per active invocation
    fetchLog,   \* the qids passed to get_entity_metadata_by_qid in this top-level call
    pc,         \* "idle", "walking", "returned" or "raised"
    run,        \* how many top-level walk calls were started on this client
    result1,    \* the list the first top-level walk returned
    itemsLeft,  \* what the environment may still put into responses (see Weight)
    metadata,   \* the raw record given to parse_entity_metadata
    parsed,     \* what parse_entity_metadata did with it
    ppc,        \* "idle", "input" or "parsed"
    sparql,     \* what the query service does with the request of get_qid_by_bdrc_work_id
    qidResult,  \* what get_qid_by_bdrc_work_id returned
    qpc,        \* "idle", "input" or "returned"
    blocks,     \* the encoded size of each block given to split_and_save_subpages
    parts,      \* parts of split_and_save_subpages: each a list of block indices
    current,    \* current of split_and_save_subpages: a list of block indices
    nextBlock,  \* the index of the block the loop takes next
    dry_run,    \* the dry_run argument of split_and_save_subpages
    nextPart,   \* the number of the part the saving loop takes next
    subpages,   \* subpages of split_and_save_subpages: the numbers of the saved parts
    splitResult,\* what split_and_save_subpages returned
    spc         \* "idle", "loop", "save" or "done"

vars == <<world, start, visited, edges, stack, fetchLog, pc, run, result1,
          itemsLeft, metadata, parsed, ppc, sparql, qidResult, qpc,
          blocks, parts, current, nextBlock, dry_run, nextPart, subpages,
          splitResult, spc>>

walkVars == <<world, start, visited, edges, stack, fetchLog, pc, run, result1,
              itemsLeft>>

parseVars == <<metadata, parsed, ppc>>

qidVars == <<sparql, qidResult, qpc>>

splitVars == <<blocks, parts, current, nextBlock, dry_run, nextPart, subpages,
              splitResult, spc>>

----------------------------------------------------------------------------
(* Bounds of the model. *)

\* The weight of all responses of one world: see Weight.
MaxItems == 3

\* Statements in one raw record given to parse_entity_metadata.
MaxStmts == 2

\* Characters in the URI of one binding of a query result.
MaxUriLen == 3

\* Bindings in one query result.
MaxBindings == 2

\* Blocks given to split_and_save_subpages.
MaxBlocks == 3

----------------------------------------------------------------------------
(* JSON values and the Python operations the code applies to them. *)

JNull == [t |-> "null"]

JNum(n) == [t |-> "num", n |-> n]

JStr(s) == [t |-> "str", s |-> s]

JList(xs) == [t |-> "list", l |-> xs]

JDict(f) == [t |-> "dict", d |-> f]

EmptyDict == JDict(<<>>)

Raise == [t |-> "raise"]

IsRaise(x) == x.t = "raise"

IsDict(x) == x.t = "dict"

IsStr(x) == x.t = "str"

\* d.get(key, default) on a dict d
DictGet(d, key, default) == IF key \in DOMAIN d.d THEN d.d[key] ELSE default

\* x[key] succeeds only on a dict that has the key (KeyError, TypeError otherwise)
HasItem(x, key) == IsDict(x) /\ key \in DOMAIN x.d

\* bool(x)
Truthy(x) ==
    CASE x.t = "null" -> FALSE
      [] x.t = "num" -> x.n # 0
      [] x.t = "str" -> Len(x.s) > 0
      [] x.t = "list" -> Len(x.l) > 0
      [] x.t = "dict" -> DOMAIN x.d # {}
      [] OTHER -> TRUE

\* s.startswith(prefix) for a one-character prefix
StartsWith(s, c) == Len(s) > 0 /\ s[1] = c

\* The keys of a dict as a sequence (iteration order of the dict).
RECURSIVE SetToSeq(_)
SetToSeq(S) ==
    IF S = {} THEN <<>>
    ELSE LET x == CHOOSE y \in S : TRUE IN <<x>> \o SetToSeq(S \ {x})

\* "for e in x": the elements of a list, the characters of a str, the keys of
\* a dict (each key kept as a one-token str); TypeError for anything else.
Iter(x) ==
    CASE x.t = "list" -> x
      [] x.t = "str" -> JList([i \in 1..Len(x.s) |-> JStr(<<x.s[i]>>)])
      [] x.t = "dict" ->
            LET ks == SetToSeq(DOMAIN x.d) IN JList([i \in 1..Len(ks) |-> JStr(<<ks[i]>>)])
      [] OTHER -> Raise

----------------------------------------------------------------------------
(* WikidataClient.__init__: the static property table. *)

property_id_to_name ==
    [pid \in {"P1476", "P50", "P655", "P373", "P31", "P279", "P747", "P4969",
              "P136", "P921", "P1343", "P2888", "P407", "P18", "P10", "P2671",
              "P2477", "P989"} |->
        CASE pid = "P1476" -> "title"
          [] pid = "P50" -> "author"
          [] pid = "P655" -> "translator"
          [] pid = "P373" -> "commons_category_link"
          [] pid = "P31" -> "instance_of"
          [] pid = "P279" -> "subclass_of"
          [] pid = "P747" -> "has_edition"
          [] pid = "P4969" -> "derivative_work"
          [] pid = "P136" -> "genre"
          [] pid = "P921" -> "main_subject"
          [] pid = "P1343" -> "described_by_source"
          [] pid = "P2888" -> "exact_match"
          [] pid = "P407" -> "language_of_work"
          [] pid = "P18" -> "image"
          [] pid = "P10" -> "video"
          [] pid = "P2671" -> "google_knowledge_graph_id"
          [] pid = "P2477" -> "sbn_author_id"
          [] pid = "P989" -> "spoken_text_audio"]

PropertyIds == DOMAIN property_id_to_name

PropertyNames == {property_id_to_name[pid] : pid \in PropertyIds}

\* The property id of a name of the table (the table is one-to-one).
IdOfName(name) == CHOOSE pid \in PropertyIds : property_id_to_name[pid] = name

----------------------------------------------------------------------------
(* The normalizer. *)

\* {lang: entry["value"] for lang, entry in metadata.get(field, {}).items()}:
\* one entry that cannot be subscripted aborts the whole comprehension.
ParseValueMap(md, field) ==
    IF ~IsDict(md) THEN Raise
    ELSE LET m == DictGet(md, field, EmptyDict) IN
         IF ~IsDict(m) THEN Raise
         ELSE IF \E lang \in DOMAIN m.d : ~HasItem(m.d[lang], "value") THEN Raise
         ELSE JDict([lang \in DOMAIN m.d |-> m.d[lang].d["value"]])

_parse_labels(md) == ParseValueMap(md, "labels")

_parse_descriptions(md) == ParseValueMap(md, "descriptions")

\* [alias["value"] for alias in aliases] for one language
AliasValues(aliases) ==
    LET it == Iter(aliases) IN
    IF IsRaise(it) THEN Raise
    ELSE IF \E i \in 1..Len(it.l) : ~HasItem(it.l[i], "value") THEN Raise
    ELSE JList([i \in 1..Len(it.l) |-> it.l[i].d["value"]])

_parse_aliases(md) ==
    IF ~IsDict(md) THEN Raise
    ELSE LET m == DictGet(md, "aliases", EmptyDict) IN
         IF ~IsDict(m) THEN Raise
         ELSE IF \E lang \in DOMAIN m.d : IsRaise(AliasValues(m.d[lang])) THEN Raise
         ELSE JDict([lang \in DOMAIN m.d |-> AliasValues(m.d[lang])])

\* The statement's value appended as it is, compound or not.
StatementValueUnflattened(property_metadata) ==
    IF ~IsDict(property_metadata) THEN Raise
    ELSE LET mainsnak == DictGet(property_metadata, "mainsnak", EmptyDict) IN
         IF ~IsDict(mainsnak) THEN Raise
         ELSE LET datavalue == DictGet(mainsnak, "datavalue", EmptyDict) IN
              IF ~IsDict(datavalue) THEN Raise
              ELSE DictGet(datavalue, "value", JNull)

\* The value one statement contributes, or Raise when a .get is applied to
\* something that is not a dict.
StatementValue(property_metadata) ==
    IF ~IsDict(property_metadata) THEN Raise
    ELSE LET mainsnak == DictGet(property_metadata, "mainsnak", EmptyDict) IN
         IF ~IsDict(mainsnak) THEN Raise
         ELSE LET datavalue == DictGet(mainsnak, "datavalue", EmptyDict) IN
              IF ~IsDict(datavalue) THEN Raise
              ELSE LET value == DictGet(datavalue, "value", JNull) IN
                   IF IsDict(value) /\ "id" \in DOMAIN value.d
                   THEN value.d["id"]
                   ELSE value

_extract_property_values(properties_metadata, property_id) ==
    IF ~IsDict(properties_metadata) THEN Raise
    ELSE LET it == Iter(DictGet(properties_metadata, property_id, JList(<<>>))) IN
         IF IsRaise(it) THEN Raise
         ELSE IF \E i \in 1..Len(it.l) : IsRaise(StatementValue(it.l[i])) THEN Raise
         ELSE JList([i \in 1..Len(it.l) |-> StatementValue(it.l[i])])

\* The body of the try block: the parsed record, or Raise.
ParseBody(md) ==
    LET labels == _parse_labels(md)
        descriptions == _parse_descriptions(md)
        aliases == _parse_aliases(md)
    IN
    IF IsRaise(labels) \/ IsRaise(descriptions) \/ IsRaise(aliases) THEN Raise
    ELSE LET properties_metadata == DictGet(md, "claims", EmptyDict) IN
         IF \E pid \in PropertyIds :
                IsRaise(_extract_property_values(properties_metadata, pid))
         THEN Raise
         ELSE JDict(
                [k \in {"qid", "labels", "descriptions", "aliases"} \cup PropertyNames |->
                    CASE k = "qid" -> DictGet(md, "id", JStr(<<>>))
                      [] k = "labels" -> labels
                      [] k = "descriptions" -> descriptions
                      [] k = "aliases" -> aliases
                      [] OTHER ->
                            _extract_property_values(properties_metadata, IdOfName(k))])

\* The except block: metadata.get('id', ...) is evaluated again, for the log
\* line and for the record, and raises in its turn when metadata has no get.
ParseHandler(md) ==
    IF ~IsDict(md) THEN Raise
    ELSE JDict(
            [k \in {"qid", "labels", "descriptions", "aliases"} |->
                IF k = "qid" THEN DictGet(md, "id", JStr(<<>>)) ELSE EmptyDict])

parse_entity_metadata(md) ==
    LET body == ParseBody(md) IN
    IF ~IsRaise(body) THEN body ELSE ParseHandler(md)

----------------------------------------------------------------------------
(* Raw records: what the entity-data endpoint returns, and what it could     *)
(* return when a part of the record is malformed.                            *)

Q1 == <<"Q", "1">>

Q2 == <<"Q", "2">>

Q3 == <<"Q", "3">>

\* A string that starts with "Q" and is no entity identifier.
Qx == <<"Q", "x">>

\* A property identifier: a letter prefix and digits, but not an item.
P5 == <<"P", "5">>

EntityIds == {Q1, Q2, Q3}

\* A statement whose main value is v.
Statement(v) ==
    JDict([k \in {"mainsnak"} |->
        JDict([j \in {"snaktype", "datavalue"} |->
            IF j = "snaktype" THEN JStr(<<"v">>)
            ELSE JDict([i \in {"value"} |-> v])])])

\* The main value of a statement that refers to the entity id.
EntityRef(id) ==
    JDict([k \in {"entity-type", "id"} |->
        IF k = "id" THEN JStr(id) ELSE JStr(<<"i">>)])

\* A structured literal: a compound value with no id field.
Quantity == JDict([k \in {"amount", "unit"} |-> JStr(<<"1">>)])

\* A statement with no main value (snaktype "novalue").
NoValueStatement == JDict([k \in {"mainsnak"} |-> JDict([j \in {"snaktype"} |-> JStr(<<"n">>)])])

\* A well-formed label, description or alias entry.
TextEntry(s) == JDict([k \in {"language", "value"} |-> JStr(s)])

\* An entry that lacks the value field.
NoValueEntry == JDict([k \in {"language"} |-> JStr(<<"b">>)])

\* The dict with the keys ks for which f gives a value other than Absent.
Absent == [t |-> "absent"]

DictOf(f) == JDict([k \in {j \in DOMAIN f : f[j] # Absent} |-> f[k]])

IfNonEmpty(xs) == IF Len(xs) = 0 THEN Absent ELSE JList(xs)

SeqsUpTo(S, n) == UNION {[1..k -> S] : k \in 0..n}

----------------------------------------------------------------------------
(* parse_entity_metadata as a pure function: the inputs it is applied to.    *)

StatementShapes ==
    { Statement(EntityRef(Q1)), Statement(EntityRef(Q2)), Statement(Quantity),
      Statement(JStr(<<"a">>)), Statement(JNum(5)), NoValueStatement,
      EmptyDict, JStr(<<"s">>),
      JDict([k \in {"mainsnak"} |-> JNull]) }

\* claims with at most MaxStmts statements, under two properties of the table
\* and one property that is not in it.
ClaimsInputs ==
    { DictOf([k \in {"P747", "P50", "P999"} |->
            CASE k = "P747" -> IfNonEmpty(SubSeq(s, 1, p))
              [] k = "P50" -> IfNonEmpty(SubSeq(s, p + 1, q))
              [] OTHER -> IfNonEmpty(SubSeq(s, q + 1, Len(s)))]) :
        <<s, p, q>> \in { <<s, p, q>> \in SeqsUpTo(StatementShapes, MaxStmts)
                                            \X (0..MaxStmts) \X (0..MaxStmts) :
                            p <= q /\ q <= Len(s) } }
    \cup { JList(<<>>), JDict([k \in {"P747"} |-> JNull]) }

GoodLabels == JDict([k \in {"en", "bo"} |-> TextEntry(<<"l">>)])

GoodDescriptions == JDict([k \in {"en"} |-> TextEntry(<<"d">>)])

GoodAliases == JDict([k \in {"en"} |-> JList(<<TextEntry(<<"a">>), TextEntry(<<"b">>)>>)])

\* The label, description and alias parts: all well formed, or one of them
\* absent, empty or malformed.
Envelopes ==
    { <<GoodLabels, GoodDescriptions, GoodAliases>> }
    \cup { <<l, GoodDescriptions, GoodAliases>> :
            l \in { Absent, EmptyDict,
                    JDict([k \in {"en", "bo"} |->
                        IF k = "en" THEN TextEntry(<<"l">>) ELSE NoValueEntry]),
                    JDict([k \in {"en", "bo"} |->
                        IF k = "en" THEN TextEntry(<<"l">>) ELSE JStr(<<"l">>)]),
                    JList(<<>>) } }
    \cup { <<GoodLabels, d, GoodAliases>> :
            d \in { Absent,
                    JDict([k \in {"en", "bo"} |->
                        IF k = "en" THEN TextEntry(<<"d">>) ELSE NoValueEntry]) } }
    \cup { <<GoodLabels, GoodDescriptions, a>> :
            a \in { Absent,
                    JDict([k \in {"en"} |-> JList(<<TextEntry(<<"a">>), NoValueEntry>>)]),
                    JDict([k \in {"en"} |-> JNull]) } }

MappingInputs ==
    { DictOf([k \in {"id", "labels", "descriptions", "aliases", "claims"} |->
            CASE k = "id" -> id
              [] k = "labels" -> env[1]
              [] k = "descriptions" -> env[2]
              [] k = "aliases" -> env[3]
              [] OTHER -> claims]) :
        <<id, env, claims>> \in {Absent, JStr(Q1)} \X Envelopes
                                   \X ({Absent} \cup ClaimsInputs) }

\* Inputs that are not a mapping.
NonMappingInputs == { JNull, JList(<<>>), JList(<<JNum(1)>>), JStr(Q1), JNum(5) }

RawInputs == MappingInputs \cup NonMappingInputs

----------------------------------------------------------------------------
(* The entity-data endpoint as walk sees it through                          *)
(* get_entity_metadata_by_qid: None when the request, its status check or    *)
(* the parsing fails, otherwise data["entities"][qid].  A response is chosen *)
(* at the first fetch of a qid and stays the same afterwards.                *)

Unfetched == [t |-> "unfetched"]

\* Main values a has_edition or derivative_work statement can carry.
JunkValues ==
    { JNum(5), Absent, Quantity, JStr(<<>>), JStr(P5), JStr(Qx) }

WalkValues == { EntityRef(id) : id \in EntityIds } \cup JunkValues

\* Every string walk can be called with.
AllIds == EntityIds \cup {Qx}

StatementOf(v) == IF v = Absent THEN NoValueStatement ELSE Statement(v)

StatementsOf(vs) == [i \in 1..Len(vs) |-> StatementOf(vs[i])]

\* What a list of statement values takes from MaxItems: one for a reference
\* to an entity, two for any other value.
RECURSIVE Weight(_)
Weight(vs) ==
    IF Len(vs) = 0 THEN 0
    ELSE (IF Head(vs) \in JunkValues THEN 2 ELSE 1) + Weight(Tail(vs))

\* The record of entity qid with the statements eds under has_edition (P747)
\* and dws under derivative_work (P4969); goodLabels says whether its label
\* entry has the value field.
EntityRecord(qid, goodLabels, eds, dws) ==
    DictOf([k \in {"id", "labels", "claims"} |->
        CASE k = "id" -> JStr(qid)
          [] k = "labels" ->
                JDict([l \in {"en"} |->
                    IF goodLabels THEN TextEntry(<<"l">>) ELSE NoValueEntry])
          [] OTHER ->
                DictOf([pid \in {"P747", "P4969"} |->
                    IF pid = "P747" THEN IfNonEmpty(StatementsOf(eds))
                    ELSE IfNonEmpty(StatementsOf(dws))])])

\* The responses the endpoint can give for qid when the responses before it
\* left items of MaxItems: <<response, weight>>.  The empty mapping weighs
\* one, a malformed label entry two.
EnvResponses(qid, items) ==
    { <<JNull, 0>> }
    \cup { <<EmptyDict, 1>> : x \in {y \in {1} : y <= items} }
    \cup { <<EntityRecord(qid, c[3], SubSeq(c[1], 1, c[2]), SubSeq(c[1], c[2] + 1, Len(c[1]))),
             Weight(c[1]) + (IF c[3] THEN 0 ELSE 2)>> :
            c \in { d \in SeqsUpTo(WalkValues, items) \X (0..items) \X BOOLEAN :
                        /\ d[2] <= Len(d[1])
                        /\ Weight(d[1]) + (IF d[3] THEN 0 ELSE 2) <= items } }

\* get_entity_metadata_by_qid(qid): the responses it can return in this state.
get_entity_metadata_by_qid(qid) ==
    IF world[qid] # Unfetched THEN { <<world[qid], 0>> }
    ELSE EnvResponses(qid, itemsLeft)

----------------------------------------------------------------------------
(* State before anything ran. *)

WalkIdle ==
    /\ world = [id \in AllIds |-> Unfetched]
    /\ start = Q1
    /\ visited = {}
    /\ edges = <<>>
    /\ stack = <<>>
    /\ fetchLog = <<>>
    /\ pc = "idle"
    /\ run = 0
    /\ result1 = <<>>
    /\ itemsLeft = MaxItems

ParseIdle ==
    /\ metadata = JNull
    /\ parsed = JNull
    /\ ppc = "idle"

QidIdle ==
    /\ sparql = [outcome |-> "none", data |-> JNull]
    /\ qidResult = JNull
    /\ qpc = "idle"

SplitIdle ==
    /\ blocks = <<>>
    /\ parts = <<>>
    /\ current = <<>>
    /\ nextBlock = 1
    /\ dry_run = TRUE
    /\ nextPart = 1
    /\ subpages = <<>>
    /\ splitResult = [t |-> "pending"]
    /\ spc = "idle"

----------------------------------------------------------------------------
(* walk.  A frame is one invocation: its qid, where it stands ("enter" before *)
(* the visited test, then the "edition" loop, then the "derivative" loop),    *)
(* the index of the next value of the loop, and the two value lists.          *)

Frame(qid) == [qid |-> qid, st |-> "enter", i |-> 1, eds |-> <<>>, dws |-> <<>>]

\* A variant of Edge that swaps the two ends.
EdgeSwapped(from, to, relationship) == [from |-> to, to |-> from, relationship |-> relationship]

Edge(from, to, relationship) == [from |-> from, to |-> to, relationship |-> relationship]

\* A default argument evaluated once and shared by every call.
KeptVisited == visited

\* _visited and _edges of a top-level call, which passes neither.
NewVisited == {}

NewEdges == <<>>

\* walk without the visited test.
AlreadyVisitedNever(qid, _visited) == FALSE

AlreadyVisited(qid, _visited) == qid \in _visited

\* walk without _visited.add(qid).
MarkVisitedForgets(qid, _visited) == _visited

MarkVisited(qid, _visited) == _visited \cup {qid}

\* walk without the test of the fetch result.
FetchFailedNever(entity_metadata) == FALSE

\* "if not entity_metadata"
FetchFailed(entity_metadata) == ~Truthy(entity_metadata)

\* parsed_metadata.get(name, [])
ValueList(parsed_metadata, name) ==
    IF name \in DOMAIN parsed_metadata.d THEN parsed_metadata.d[name].l ELSE <<>>

\* The test both loops apply to a value before they follow it.
IsWalkable(value) == Truthy(value) /\ IsStr(value) /\ StartsWith(value.s, "Q")

Top == Head(stack)

\* A variant of Call that lets the caller go on and runs the callee after
\* everything else.
CallDeferred(callee, caller, rest) == <<caller>> \o rest \o <<callee>>

\* self.walk(value, _visited, _edges): the callee runs to its return before
\* the caller goes on.
Call(callee, caller, rest) == <<callee, caller>> \o rest

\* A variant of AppendEdge that leaves out an edge to a visited entity.
AppendEdgeIfNew(_edges, edge, _visited) ==
    IF edge.to \in _visited THEN _edges ELSE Append(_edges, edge)

\* _edges.append({...}): whether or not the target was visited
AppendEdge(_edges, edge, _visited) == Append(_edges, edge)

\* The invocation on top of the stack returns _edges; the last one returns
\* to the caller of walk.
Return ==
    /\ stack' = Tail(stack)
    /\ pc' = IF Len(stack) = 1 THEN "returned" ELSE "walking"
    /\ result1' = IF Len(stack) = 1 /\ run = 1 THEN edges' ELSE result1

\* A caller calls walk(start) on the client: the first call, and a second
\* one after the first returned.
TopLevelCall ==
    /\ pc = "idle" \/ (pc = "returned" /\ run = 1)
    /\ run' = run + 1
    /\ pc' = "walking"
    /\ visited' = NewVisited
    /\ edges' = NewEdges
    /\ stack' = <<Frame(start)>>
    /\ fetchLog' = <<>>
    /\ UNCHANGED <<world, start, result1, itemsLeft, parseVars, qidVars, splitVars>>

\* An invocation starts: the visited test, the marking, the fetch, the parse.
Enter ==
    /\ pc = "walking" /\ stack # <<>> /\ Top.st = "enter"
    /\ IF AlreadyVisited(Top.qid, visited)
       THEN /\ UNCHANGED <<world, visited, edges, fetchLog, itemsLeft>>
            /\ Return
       ELSE /\ visited' = MarkVisited(Top.qid, visited)
            /\ fetchLog' = Append(fetchLog, Top.qid)
            /\ edges' = edges
            /\ \E r \in get_entity_metadata_by_qid(Top.qid) :
                /\ world' = [world EXCEPT ![Top.qid] = r[1]]
                /\ itemsLeft' = itemsLeft - r[2]
                /\ IF FetchFailed(r[1])
                   THEN Return
                   ELSE LET parsed_metadata == parse_entity_metadata(r[1]) IN
                        IF IsRaise(parsed_metadata)
                        THEN /\ pc' = "raised"
                             /\ UNCHANGED <<stack, result1>>
                        ELSE /\ stack' = <<[Top EXCEPT
                                                !.st = "edition",
                                                !.eds = ValueList(parsed_metadata, "has_edition"),
                                                !.dws = ValueList(parsed_metadata, "derivative_work")]>>
                                          \o Tail(stack)
                             /\ UNCHANGED <<pc, result1>>
    /\ UNCHANGED <<start, run, parseVars, qidVars, splitVars>>

\* One turn of a loop over the values vs: the edge and the recursive call for
\* a value that passes the test, nothing for any other value.
LoopTurn(vs, relationship) ==
    /\ Top.i <= Len(vs)
    /\ IF IsWalkable(vs[Top.i])
       THEN /\ edges' = AppendEdge(edges, Edge(Top.qid, vs[Top.i].s, relationship), visited)
            /\ stack' = Call(Frame(vs[Top.i].s), [Top EXCEPT !.i = @ + 1], Tail(stack))
       ELSE /\ edges' = edges
            /\ stack' = <<[Top EXCEPT !.i = @ + 1]>> \o Tail(stack)
    /\ UNCHANGED <<pc, result1>>

EditionLoop ==
    /\ pc = "walking" /\ stack # <<>> /\ Top.st = "edition"
    /\ \/ LoopTurn(Top.eds, "has_edition")
       \/ /\ Top.i > Len(Top.eds)
          /\ stack' = <<[Top EXCEPT !.st = "derivative", !.i = 1]>> \o Tail(stack)
          /\ UNCHANGED <<edges, pc, result1>>
    /\ UNCHANGED <<world, start, visited, fetchLog, run, itemsLeft, parseVars, qidVars, splitVars>>

DerivativeLoop ==
    /\ pc = "walking" /\ stack # <<>> /\ Top.st = "derivative"
    /\ \/ LoopTurn(Top.dws, "derivative_work")
       \/ /\ Top.i > Len(Top.dws)
          /\ edges' = edges
          /\ Return
    /\ UNCHANGED <<world, start, visited, fetchLog, run, itemsLeft, parseVars, qidVars, splitVars>>

Init == WalkIdle /\ ParseIdle /\ QidIdle /\ SplitIdle

Next == TopLevelCall \/ Enter \/ EditionLoop \/ DerivativeLoop

Spec == Init /\ [][Next]_vars

----------------------------------------------------------------------------
(* walk as the recursive function it is in the source: the visited set and   *)
(* the edge list after walk(qid, _visited, _edges) over the responses w.     *)

RECURSIVE WalkFrom(_, _, _), WalkValuesFrom(_, _, _, _, _)

WalkFrom(w, qid, acc) ==
    IF qid \in acc.visited THEN acc
    ELSE LET marked == [acc EXCEPT !.visited = @ \cup {qid}] IN
         IF w[qid] = Unfetched \/ ~Truthy(w[qid]) THEN marked
         ELSE LET parsed_metadata == parse_entity_metadata(w[qid]) IN
              IF IsRaise(parsed_metadata) THEN [marked EXCEPT !.raised = TRUE]
              ELSE WalkValuesFrom(w, qid, ValueList(parsed_metadata, "derivative_work"),
                                  "derivative_work",
                       WalkValuesFrom(w, qid, ValueList(parsed_metadata, "has_edition"),
                                      "has_edition", marked))

WalkValuesFrom(w, qid, vs, relationship, acc) ==
    IF Len(vs) = 0 \/ acc.raised THEN acc
    ELSE LET value == Head(vs) IN
         IF Truthy(value) /\ IsStr(value) /\ StartsWith(value.s, "Q")
         THEN WalkValuesFrom(w, qid, Tail(vs), relationship,
                  WalkFrom(w, value.s,
                      [acc EXCEPT !.edges = Append(@, Edge(qid, value.s, relationship))]))
         ELSE WalkValuesFrom(w, qid, Tail(vs), relationship, acc)

\* walk(qid) called by a caller, over the responses w.
WalkResult(w, qid) == WalkFrom(w, qid, [visited |-> {}, edges |-> <<>>, raised |-> FALSE])

----------------------------------------------------------------------------
(* What the claims speak of. *)

Letters == {"L", "P", "Q"}

Digits == {"0", "1", "2", "3", "4", "5", "6", "7", "8", "9"}

\* A well-formed entity identifier: a letter prefix followed by digits.
WellFormedId(s) ==
    /\ Len(s) >= 2
    /\ s[1] \in Letters
    /\ \A i \in 2..Len(s) : s[i] \in Digits

\* The main value of a statement of a raw record, null when it has none.
MainValueOf(statement) ==
    IF /\ HasItem(statement, "mainsnak")
       /\ HasItem(statement.d["mainsnak"], "datavalue")
       /\ HasItem(statement.d["mainsnak"].d["datavalue"], "value")
    THEN statement.d["mainsnak"].d["datavalue"].d["value"]
    ELSE JNull

\* What the spec says a statement's normalized value is.
FlattenedValue(statement) ==
    LET value == MainValueOf(statement) IN
    IF HasItem(value, "id") THEN value.d["id"] ELSE value

\* The statements of a raw record under property pid.
RawStatements(record, pid) ==
    IF /\ HasItem(record, "claims")
       /\ HasItem(record.d["claims"], pid)
       /\ record.d["claims"].d[pid].t = "list"
    THEN record.d["claims"].d[pid].l
    ELSE <<>>

RelationshipProperty(relationship) ==
    IF relationship = "has_edition" THEN "P747" ELSE "P4969"

Relationships == {"has_edition", "derivative_work"}

\* How often get_entity_metadata_by_qid was called with qid in this top-level call.
FetchCount(qid) == Cardinality({i \in 1..Len(fetchLog) : fetchLog[i] = qid})

Fetched == {fetchLog[i] : i \in 1..Len(fetchLog)}

\* The entities whose fetch failed or returned nothing.
FailedFetches == {qid \in Fetched : ~Truthy(world[qid])}

\* The entities an entity lists as edition or derivative work: the strings its
\* statements under the two properties refer to.
ListedBy(qid) ==
    IF qid \notin AllIds \/ world[qid] = Unfetched THEN {}
    ELSE UNION { LET ss == RawStatements(world[qid], pid) IN
                 { FlattenedValue(ss[i]).s :
                     i \in { k \in 1..Len(ss) : /\ IsStr(FlattenedValue(ss[k]))
                                                /\ Len(FlattenedValue(ss[k]).s) > 0 } } :
                 pid \in {"P747", "P4969"} }

RECURSIVE ReachableFrom(_)
ReachableFrom(S) ==
    LET T == S \cup UNION { ListedBy(qid) : qid \in S }
    IN IF T = S THEN S ELSE ReachableFrom(T)

\* The distinct entities reachable from start in the relationship graph.
Reachable == ReachableFrom({start})

\* The work a frame still stands for: two for each value its loops have not
\* reached, and one for each of the stages enter, edition, derivative it has
\* not left.
FrameWork(f) ==
    CASE f.st = "enter" -> 1
      [] f.st = "edition" -> 2 * (Len(f.eds) + 1 - f.i) + 2 * Len(f.dws) + 2
      [] OTHER -> 2 * (Len(f.dws) + 1 - f.i) + 1

RECURSIVE StackWork(_)
StackWork(frames) ==
    IF Len(frames) = 0 THEN 0 ELSE FrameWork(Head(frames)) + StackWork(Tail(frames))

\* More than the work one frame can stand for.
EntityWork == 2 * MaxItems + 3

\* A bound on the steps the two top-level calls can still take: the calls not
\* yet made, the identifiers not yet visited by the call in progress, and
\* the work of the frames on the stack.
Measure ==
    (2 - run) * ((Cardinality(AllIds) + 1) * EntityWork)
    + (IF pc = "walking" THEN Cardinality(AllIds \ visited) * EntityWork ELSE 0)
    + StackWork(stack)

CountEdges(from, to, relationship) ==
    Cardinality({i \in 1..Len(edges) : edges[i] = Edge(from, to, relationship)})

CountStatements(qid, relationship, to) ==
    LET ss == RawStatements(world[qid], RelationshipProperty(relationship)) IN
    Cardinality({i \in 1..Len(ss) : MainValueOf(ss[i]) = EntityRef(to)})

----------------------------------------------------------------------------
(* The normalizer applied to one raw record. *)

ParseInit ==
    /\ WalkIdle
    /\ QidIdle
    /\ SplitIdle
    /\ metadata \in RawInputs
    /\ parsed = JNull
    /\ ppc = "input"

Parse ==
    /\ ppc = "input"
    /\ parsed' = parse_entity_metadata(metadata)
    /\ ppc' = "parsed"
    /\ UNCHANGED <<metadata, walkVars, qidVars, splitVars>>

ParseNext == Parse

ParseSpec == ParseInit /\ [][ParseNext]_vars

----------------------------------------------------------------------------
(* get_qid_by_bdrc_work_id: one request to the query service.  The service  *)
(* answers with an outcome: the request fails ("request_error"),            *)
(* raise_for_status fails ("status_error"), response.json() fails           *)
(* ("json_error"), or the body parses to the JSON value data ("ok").        *)

\* x.get(key, default): AttributeError on anything but a dict
Get(x, key, default) == IF IsDict(x) THEN DictGet(x, key, default) ELSE Raise

\* x[key] for a str key: KeyError or TypeError unless x is a dict with the key
GetItem(x, key) == IF HasItem(x, key) THEN x.d[key] ELSE Raise

\* x[0]: the first element of a list, the first character of a str;
\* IndexError when empty, KeyError on a dict (its keys are strs), TypeError
\* on a number or None
GetFirst(x) ==
    CASE x.t = "list" -> IF Len(x.l) > 0 THEN x.l[1] ELSE Raise
      [] x.t = "str" -> IF Len(x.s) > 0 THEN JStr(<<x.s[1]>>) ELSE Raise
      [] OTHER -> Raise

\* s.split("/"): the pieces between the separators, empty pieces included
RECURSIVE Split(_)
Split(s) ==
    IF \A i \in 1..Len(s) : s[i] # "/"
    THEN <<s>>
    ELSE LET i == CHOOSE j \in 1..Len(s) :
                      s[j] = "/" /\ \A k \in 1..(j - 1) : s[k] # "/"
         IN <<SubSeq(s, 1, i - 1)>> \o Split(SubSeq(s, i + 1, Len(s)))

\* A variant of LastPart that takes the first piece.
LastPartIsFirst(pieces) == pieces[1]

\* pieces[-1]
LastPart(pieces) == pieces[Len(pieces)]

\* The body of the try block: the value returned, JNull where control falls
\* through to "return None", Raise where a statement raises.
QidTry(response) ==
    IF response.outcome # "ok" THEN Raise
    ELSE LET data == response.data
             res == Get(data, "results", EmptyDict)
             results == IF IsRaise(res) THEN Raise ELSE Get(res, "bindings", JList(<<>>))
         IN  IF IsRaise(results) THEN Raise
             ELSE IF Truthy(results)
                  THEN LET first == GetFirst(results)
                           item == IF IsRaise(first) THEN Raise ELSE GetItem(first, "item")
                           value == IF IsRaise(item) THEN Raise ELSE GetItem(item, "value")
                       IN  IF IsRaise(value) \/ ~IsStr(value)
                           THEN Raise
                           ELSE JStr(LastPart(Split(value.s)))
                  ELSE JNull

\* except Exception: the error is logged and control reaches "return None".
get_qid_by_bdrc_work_id(response) ==
    LET r == QidTry(response) IN IF IsRaise(r) THEN JNull ELSE r

\* The responses of the query service.
UriChars == {"/", "Q"}

Uris == SeqsUpTo(UriChars, MaxUriLen)

Binding(uri) ==
    JDict([k \in {"item"} |->
            JDict([j \in {"type", "value"} |->
                    IF j = "type" THEN JStr(<<"u">>) ELSE JStr(uri)])])

MalformedBindings ==
    { EmptyDict,
      JNull,
      JDict([k \in {"item"} |-> JStr(<<"Q">>)]),
      JDict([k \in {"item"} |-> JDict([j \in {"type"} |-> JStr(<<"u">>)])]),
      JDict([k \in {"item"} |-> JDict([j \in {"value"} |-> JNum(1)])]) }

Bindings == { Binding(uri) : uri \in Uris } \cup MalformedBindings

ResultOf(bindings) ==
    JDict([k \in {"results"} |-> JDict([j \in {"bindings"} |-> bindings])])

SparqlData ==
    { ResultOf(JList(bs)) : bs \in SeqsUpTo(Bindings, MaxBindings) }
    \cup { ResultOf(JNull), ResultOf(JNum(1)), ResultOf(JStr(<<"Q">>)),
           ResultOf(Binding(<<"Q">>)),
           EmptyDict,
           JDict([k \in {"results"} |-> EmptyDict]),
           JDict([k \in {"results"} |-> JNull]),
           JDict([k \in {"results"} |-> JList(<<Binding(<<"Q">>)>>)]),
           JNull, JNum(1), JStr(<<"Q">>), JList(<<Binding(<<"Q">>)>>) }

SparqlResponses ==
    { [outcome |-> o, data |-> JNull] : o \in {"request_error", "status_error", "json_error"} }
    \cup { [outcome |-> "ok", data |-> data] : data \in SparqlData }

QidInit ==
    /\ WalkIdle
    /\ ParseIdle
    /\ SplitIdle
    /\ sparql \in SparqlResponses
    /\ qidResult = JNull
    /\ qpc = "input"

Lookup ==
    /\ qpc = "input"
    /\ qidResult' = get_qid_by_bdrc_work_id(sparql)
    /\ qpc' = "returned"
    /\ UNCHANGED <<sparql, walkVars, parseVars, splitVars>>

QidNext == Lookup

QidSpec == QidInit /\ [][QidNext]_vars

----------------------------------------------------------------------------
(* split_and_save_subpages.  A block is known by its index in blocks, and   *)
(* blocks[i] is the number of bytes of its UTF-8 encoding; the encoding of  *)
(* a concatenation is the concatenation of the encodings.                   *)

\* int(2 * 1024 * 1024 * 0.9)
SAFE_PAGE_SIZE == 1887436

\* len("".join(part).encode("utf-8"))
RECURSIVE EncodedSize(_)
EncodedSize(part) ==
    IF Len(part) = 0 THEN 0 ELSE blocks[Head(part)] + EncodedSize(Tail(part))

\* The sizes a block is drawn from: empty, small, half a page, a full page,
\* more than a page.
BlockSizes ==
    {0, 1, SAFE_PAGE_SIZE \div 2, SAFE_PAGE_SIZE, SAFE_PAGE_SIZE + 1}

SplitInit ==
    /\ WalkIdle
    /\ ParseIdle
    /\ QidIdle
    /\ blocks \in SeqsUpTo(BlockSizes, MaxBlocks)
    /\ dry_run \in BOOLEAN
    /\ parts = <<>>
    /\ current = <<>>
    /\ nextBlock = 1
    /\ nextPart = 1
    /\ subpages = <<>>
    /\ splitResult = [t |-> "pending"]
    /\ spc = "loop"

\* One turn of "for block in blocks".
GroupBlock ==
    /\ spc = "loop" /\ nextBlock <= Len(blocks)
    /\ LET appended == Append(current, nextBlock) IN
       IF EncodedSize(appended) > SAFE_PAGE_SIZE
       THEN LET popped == SubSeq(appended, 1, Len(appended) - 1) IN
            /\ parts' = Append(parts, popped)
            /\ current' = <<nextBlock>>
       ELSE /\ current' = appended
            /\ parts' = parts
    /\ nextBlock' = nextBlock + 1
    /\ UNCHANGED <<blocks, dry_run, nextPart, subpages, splitResult, spc>>
    /\ UNCHANGED <<walkVars, parseVars, qidVars>>

\* After the loop: "if current: parts.append(current)".
LastPartAppended ==
    /\ spc = "loop" /\ nextBlock > Len(blocks)
    /\ parts' = IF Len(current) > 0 THEN Append(parts, current) ELSE parts
    /\ spc' = "save"
    /\ UNCHANGED <<blocks, current, nextBlock, dry_run, nextPart, subpages, splitResult>>
    /\ UNCHANGED <<walkVars, parseVars, qidVars>>

\* One turn of "for i, part in enumerate(parts, 1)": a dry run prints, a
\* save that succeeds adds the title, a save that raises ends the function
\* with None.
SavePart ==
    /\ spc = "save" /\ nextPart <= Len(parts)
    /\ IF dry_run
       THEN /\ nextPart' = nextPart + 1
            /\ UNCHANGED <<subpages, splitResult, spc>>
       ELSE \/ /\ subpages' = Append(subpages, nextPart)
               /\ nextPart' = nextPart + 1
               /\ UNCHANGED <<splitResult, spc>>
            \/ /\ splitResult' = JNull
               /\ spc' = "done"
               /\ UNCHANGED <<subpages, nextPart>>
    /\ UNCHANGED <<blocks, parts, current, nextBlock, dry_run>>
    /\ UNCHANGED <<walkVars, parseVars, qidVars>>

\* return subpages
ReturnSubpages ==
    /\ spc = "save" /\ nextPart > Len(parts)
    /\ splitResult' = JList(subpages)
    /\ spc' = "done"
    /\ UNCHANGED <<blocks, parts, current, nextBlock, dry_run, nextPart, subpages>>
    /\ UNCHANGED <<walkVars, parseVars, qidVars>>

SplitNext == GroupBlock \/ LastPartAppended \/ SavePart \/ ReturnSubpages

SplitSpec == SplitInit /\ [][SplitNext]_vars

----------------------------------------------------------------------------
(* The claims about walk. *)

\* C1: walk(start) terminates on every finite relationship graph, cyclic or
\* self-referential, under any mix of successful and failing fetches, and it
\* performs at most as many fetches as there are distinct entities reachable
\* from start.
\* Termination is stated so that a finite run refutes it: every step of the
\* walk lowers Measure, a natural number, and a walk in progress can always
\* take a step (an invocation that starts can always make its visited test
\* and its fetch, which answers at least with a failure), so each call
\* returns after at most Measure steps.
C1_WalkTerminates ==
    /\ [][Measure' < Measure]_vars
    /\ [](Measure >= 0)
    /\ [](pc = "walking" =>
            \/ stack # <<>> /\ Top.st = "enter"
            \/ ENABLED EditionLoop
            \/ ENABLED DerivativeLoop)
    /\ [](Len(fetchLog) <= Cardinality(Reachable))

\* C1 witness: a walk returned over a graph with a path back to start and an
\* entity whose fetch failed.
C1_Witness ==
    /\ pc = "returned"
    /\ \E i \in 1..Len(edges) : edges[i].to = start
    /\ FailedFetches # {}

\* C2: within one top-level walk call, get_entity_metadata_by_qid is invoked
\* at most once per distinct entity identifier.
C2_FetchOncePerEntity == \A qid \in AllIds : FetchCount(qid) <= 1

\* C2 witness: a walk returned in which two statements pointed to the same
\* target.
C2_Witness ==
    /\ pc = "returned"
    /\ \E i, j \in 1..Len(edges) : i < j /\ edges[i].to = edges[j].to

\* C3: for every entity fetched successfully during walk, each
\* identifier-valued has_edition or derivative_work statement of that entity
\* contributes exactly one edge to the result, also when its target was
\* already visited.
C3_OneEdgePerStatement ==
    pc = "returned" =>
        \A qid \in Fetched \ FailedFetches : \A to \in EntityIds : \A rel \in Relationships :
            CountEdges(qid, to, rel) = CountStatements(qid, rel, to)

\* What remains of C3 where the normalizer did not take its error path: the
\* edges from such an entity are one per identifier-valued statement.
EdgesMatchStatementsOnNormalPath ==
    pc = "returned" =>
        \A qid \in Fetched \ FailedFetches :
            ~IsRaise(ParseBody(world[qid])) =>
                \A to \in EntityIds : \A rel \in Relationships :
                    CountEdges(qid, to, rel) = CountStatements(qid, rel, to)

\* C8: walk emits an edge to, and recurses into, a value only when the value
\* is a well-formed entity identifier: a letter prefix followed by digits.
C8_OnlyWellFormedTargets ==
    /\ \A i \in 1..Len(edges) : WellFormedId(edges[i].to)
    /\ \A qid \in Fetched : qid = start \/ WellFormedId(qid)

\* C9: when the fetch of an entity fails or returns nothing the walk still
\* returns normally; the entity stays visited and is fetched once, no edge
\* starts at it, and the edges are those of a walk in which it was fetched
\* with no edition or derivative-work statement.
C9_FetchFailureTruncatesBranch ==
    /\ pc # "raised"
    /\ \A qid \in FailedFetches :
        /\ qid \in visited
        /\ FetchCount(qid) = 1
        /\ \A i \in 1..Len(edges) : edges[i].from # qid
    /\ pc = "returned" =>
        LET emptied == [qid \in AllIds |->
                            IF qid \in FailedFetches
                            THEN EntityRecord(qid, TRUE, <<>>, <<>>)
                            ELSE world[qid]]
            other == WalkResult(emptied, start)
        IN ~other.raised /\ edges = other.edges

\* C9 witness: a walk returned in which two edges point to an entity whose
\* fetch failed, and another entity was fetched after it.
C9_Witness ==
    /\ pc = "returned"
    /\ \E qid \in FailedFetches :
        /\ \E i, j \in 1..Len(edges) : i < j /\ edges[i].to = qid /\ edges[j].to = qid
        /\ \E k \in 2..Len(fetchLog) : fetchLog[k - 1] = qid

\* C10: the visited set and the edge list are scoped to one top-level call: a
\* second walk(start) on the same client, given the same responses, fetches
\* again and returns a list equal to the first one.
C10_SecondWalkEqualsFirst ==
    (pc = "returned" /\ run = 2) =>
        /\ edges = result1
        /\ FetchCount(start) = 1

\* C10 witness: the second walk returned a list of two or more edges.
C10_Witness == pc = "returned" /\ run = 2 /\ Len(edges) >= 2 /\ Len(result1) >= 2

\* C12: every edge of the list walk builds starts at an entity that was
\* fetched successfully during this walk and ends at a value of the matching
\* property in the claims of that entity: P747 for "has_edition", P4969 for
\* "derivative_work"; no edge carries another relationship string.
C12_EdgesAreStatements ==
    \A i \in 1..Len(edges) :
        LET e == edges[i]
            ss == RawStatements(world[e.from], RelationshipProperty(e.relationship))
        IN  /\ e.relationship \in Relationships
            /\ e.from \in Fetched \ FailedFetches
            /\ \E k \in 1..Len(ss) :
                   /\ IsStr(FlattenedValue(ss[k]))
                   /\ FlattenedValue(ss[k]).s = e.to

\* C12 witness: a walk returned an edge of each relationship.
C12_Witness ==
    /\ pc = "returned"
    /\ \E i, j \in 1..Len(edges) :
        /\ edges[i].relationship = "has_edition"
        /\ edges[j].relationship = "derivative_work"
        /\ edges[i].to # edges[j].to

\* The position of the first edge that ends at qid: where the walk first
\* reaches qid (0 when no edge ends at it).
FirstReached(qid) ==
    LET at == {i \in 1..Len(edges) : edges[i].to = qid} IN
    IF at = {} THEN 0 ELSE CHOOSE i \in at : \A j \in at : i <= j

\* The entities first reached by an edge at a position from p up to q - 1.
ReachedWithin(p, q) ==
    {qid \in AllIds \ {start} : p <= FirstReached(qid) /\ FirstReached(qid) < q}

\* C13: the returned list is in depth-first order with editions first.  For
\* two consecutive edges of an entity X, at p and q, the edges between them
\* are exactly the edges of the entities first reached from p on, that is
\* the edges emitted while exploring the value of p; and every has_edition
\* edge of X precedes every derivative_work edge of X.
C13_DepthFirstEditionsFirst ==
    pc = "returned" =>
        /\ \A p, q \in 1..Len(edges) :
              ( /\ p < q
                /\ edges[p].from = edges[q].from
                /\ \A k \in (p + 1)..(q - 1) : edges[k].from # edges[p].from )
              => \A k \in 1..Len(edges) :
                    (p < k /\ k < q) <=> edges[k].from \in ReachedWithin(p, q)
        /\ \A i, j \in 1..Len(edges) :
              ( /\ edges[i].from = edges[j].from
                /\ edges[i].relationship = "has_edition"
                /\ edges[j].relationship = "derivative_work" )
              => i < j

\* C13 witness: a walk returned in which an edge emitted while exploring an
\* edition of start stands between the has_edition edge and a
\* derivative_work edge of start.
C13_Witness ==
    /\ pc = "returned"
    /\ Len(edges) >= 3
    /\ edges[1].from = start /\ edges[1].relationship = "has_edition"
    /\ edges[2].from = edges[1].to /\ edges[2].from # start
    /\ edges[3].from = start /\ edges[3].relationship = "derivative_work"

\* Other traversal orders over the same responses w, each with one visited
\* set.  The result holds the visited set, the edge list, and unknown: the
\* traversal asked for an entity the walk never fetched.

\* The edges an entity contributes when it is expanded, the relationships
\* taken in the order rels.
RECURSIVE EdgesOfValues(_, _, _)
EdgesOfValues(qid, vs, relationship) ==
    IF Len(vs) = 0 THEN <<>>
    ELSE (IF IsWalkable(Head(vs))
          THEN <<Edge(qid, Head(vs).s, relationship)>>
          ELSE <<>>) \o EdgesOfValues(qid, Tail(vs), relationship)

Expand(w, qid, rels) ==
    IF w[qid] = Unfetched \/ ~Truthy(w[qid]) THEN <<>>
    ELSE LET parsed_metadata == parse_entity_metadata(w[qid]) IN
         IF IsRaise(parsed_metadata) THEN <<>>
         ELSE EdgesOfValues(qid, ValueList(parsed_metadata, rels[1]), rels[1])
              \o EdgesOfValues(qid, ValueList(parsed_metadata, rels[2]), rels[2])

\* The recursion of walk with the relationships taken in the order rels.
RECURSIVE RecursiveOrder(_, _, _, _), RecursiveOrderOver(_, _, _, _)
RecursiveOrder(w, qid, rels, acc) ==
    IF qid \in acc.visited THEN acc
    ELSE RecursiveOrderOver(w, Expand(w, qid, rels), rels,
             [acc EXCEPT !.visited = @ \cup {qid},
                         !.unknown = @ \/ w[qid] = Unfetched])

RecursiveOrderOver(w, es, rels, acc) ==
    IF Len(es) = 0 THEN acc
    ELSE RecursiveOrderOver(w, Tail(es), rels,
             RecursiveOrder(w, Head(es).to, rels,
                 [acc EXCEPT !.edges = Append(@, Head(es))]))

\* A loop over a list of entities still to expand: taken from the end (an
\* explicit stack) or from the front (a breadth-first queue).
RECURSIVE Worklist(_, _, _, _)
Worklist(w, work, fromEnd, acc) ==
    IF Len(work) = 0 THEN acc
    ELSE LET qid == IF fromEnd THEN work[Len(work)] ELSE Head(work)
             rest == IF fromEnd THEN SubSeq(work, 1, Len(work) - 1) ELSE Tail(work)
         IN  IF qid \in acc.visited THEN Worklist(w, rest, fromEnd, acc)
             ELSE LET es == Expand(w, qid, <<"has_edition", "derivative_work">>) IN
                  Worklist(w, rest \o [i \in 1..Len(es) |-> es[i].to], fromEnd,
                      [visited |-> acc.visited \cup {qid},
                       edges |-> acc.edges \o es,
                       unknown |-> acc.unknown \/ w[qid] = Unfetched])

NothingYet == [visited |-> {}, edges |-> <<>>, unknown |-> FALSE]

DerivativeFirst == RecursiveOrder(world, start, <<"derivative_work", "has_edition">>, NothingYet)

WithStack == Worklist(world, <<start>>, TRUE, NothingYet)

BreadthFirst == Worklist(world, <<start>>, FALSE, NothingYet)

EdgeSet(es) == {es[i] : i \in 1..Len(es)}

\* C14: the set of edges walk(start) returns does not depend on the order
\* of traversal: over the same responses, the recursion with derivative
\* works before editions, a loop over an explicit stack and a loop over a
\* breadth-first queue, each with one visited set, give the same set of
\* edges and ask for no entity the walk did not fetch.
C14_EdgeSetOrderIndependent ==
    pc = "returned" =>
        \A other \in {DerivativeFirst, WithStack, BreadthFirst} :
            /\ ~other.unknown
            /\ other.visited = visited
            /\ EdgeSet(other.edges) = EdgeSet(edges)

\* C14 witness: a walk returned a list of three edges that each of the
\* other orders gives in another order.
C14_Witness ==
    /\ pc = "returned"
    /\ Len(edges) = 3
    /\ DerivativeFirst.edges # edges
    /\ WithStack.edges # edges
    /\ BreadthFirst.edges # edges




----------------------------------------------------------------------------
(* The claims about parse_entity_metadata. *)

Returned == ppc = "parsed" /\ IsDict(parsed)

\* C4: for any raw entity record, also a malformed one that takes the error
\* path, the record returned has exactly one value list for each property of
\* property_id_to_name, the empty list for a property absent from claims.
C4_SchemaStability ==
    Returned =>
        /\ DOMAIN parsed.d = {"qid", "labels", "descriptions", "aliases"} \cup PropertyNames
        /\ \A pid \in PropertyIds :
            /\ parsed.d[property_id_to_name[pid]].t = "list"
            /\ Len(RawStatements(metadata, pid)) = 0 =>
                    parsed.d[property_id_to_name[pid]] = JList(<<>>)

\* C5: parse_entity_metadata never raises to its caller: for an input that is
\* not a mapping, or whose traversal raises, it returns the degraded record
\* with the best-available identifier and empty labels, descriptions, aliases.
C5_NeverRaises ==
    ppc = "parsed" =>
        /\ ~IsRaise(parsed)
        /\ IsRaise(ParseBody(metadata)) =>
            /\ parsed.d["labels"] = EmptyDict
            /\ parsed.d["descriptions"] = EmptyDict
            /\ parsed.d["aliases"] = EmptyDict

\* The languages of a label or description map whose entry has the value field.
GoodLanguages(md, field) ==
    IF HasItem(md, field) /\ IsDict(md.d[field])
    THEN {lang \in DOMAIN md.d[field].d : HasItem(md.d[field].d[lang], "value")}
    ELSE {}

\* The only malformed parts of the record are label or description entries.
OnlyEntriesMalformed(md) ==
    /\ IsDict(md)
    /\ \A field \in {"labels", "descriptions"} :
            HasItem(md, field) => IsDict(md.d[field])
    /\ ~IsRaise(_parse_aliases(md))
    /\ \A pid \in PropertyIds :
            ~IsRaise(_extract_property_values(DictGet(md, "claims", EmptyDict), pid))

\* C6: a malformed label or description entry of one language is skipped
\* alone: the labels and descriptions of every other language, the aliases
\* and the property value lists are still extracted and returned.
C6_MalformedEntrySkipped ==
    (ppc = "parsed" /\ OnlyEntriesMalformed(metadata)) =>
        /\ IsDict(parsed)
        /\ \A field \in {"labels", "descriptions"} :
            \A lang \in GoodLanguages(metadata, field) :
                /\ lang \in DOMAIN parsed.d[field].d
                /\ parsed.d[field].d[lang] = metadata.d[field].d[lang].d["value"]
        /\ parsed.d["aliases"] = _parse_aliases(metadata)
        /\ PropertyNames \subseteq DOMAIN parsed.d

----------------------------------------------------------------------------
(* The claim about get_qid_by_bdrc_work_id. *)

\* The last path segment of a URI: what follows its last "/".
LastSegment(uri) ==
    LET slashes == {i \in 1..Len(uri) : uri[i] = "/"} IN
    IF slashes = {} THEN uri
    ELSE LET last == CHOOSE i \in slashes : \A j \in slashes : j <= i IN
         SubSeq(uri, last + 1, Len(uri))

\* The bindings of the query result; none where the request, the status
\* check or the parsing failed or the body is not a query result.
BindingsOf(response) ==
    IF /\ response.outcome = "ok"
       /\ HasItem(response.data, "results")
       /\ HasItem(response.data.d["results"], "bindings")
       /\ response.data.d["results"].d["bindings"].t = "list"
    THEN response.data.d["results"].d["bindings"].l
    ELSE <<>>

\* The binding carries the URI of an item.
HasItemUri(binding) ==
    /\ HasItem(binding, "item")
    /\ HasItem(binding.d["item"], "value")
    /\ IsStr(binding.d["item"].d["value"])

\* C11: get_qid_by_bdrc_work_id never raises; when the result has at least
\* one binding it returns the last path segment of the URI of the first
\* binding; when the result has no bindings, or the request, its status
\* check or the parsing of the response fails (a first binding that carries
\* no item URI included), it returns None.
C11_FirstBindingOrNone ==
    qpc = "returned" =>
        /\ ~IsRaise(qidResult)
        /\ LET bs == BindingsOf(sparql) IN
           IF Len(bs) > 0 /\ HasItemUri(bs[1])
           THEN /\ IsStr(qidResult)
                /\ qidResult.s = LastSegment(bs[1].d["item"].d["value"].s)
           ELSE qidResult.t = "null"

\* C11 witness: a result of two bindings with different URIs, the first one
\* with a path, was answered with the last segment of the first.
C11_Witness ==
    /\ qpc = "returned"
    /\ Len(BindingsOf(sparql)) = 2
    /\ BindingsOf(sparql)[1] = Binding(<<"/", "Q", "Q">>)
    /\ BindingsOf(sparql)[2] = Binding(<<"/", "Q">>)
    /\ IsStr(qidResult)
    /\ qidResult.s = <<"Q", "Q">>

\* C11 witness of the not-found side: a failed request was answered with None.
C11_FailureWitness ==
    /\ qpc = "returned"
    /\ sparql.outcome = "request_error"
    /\ qidResult.t = "null"

----------------------------------------------------------------------------
(* The claim about split_and_save_subpages. *)

\* The parts one after another.
RECURSIVE Flatten(_)
Flatten(ps) == IF Len(ps) = 0 THEN <<>> ELSE Head(ps) \o Flatten(Tail(ps))

Grouped == spc \in {"save", "done"}

\* The parts, one after another, give back the blocks in order.
PartsKeepBlocks == Flatten(parts) = [i \in 1..Len(blocks) |-> i]

\* A part of more than one block fits a page.
SharedPartsFit ==
    \A p \in 1..Len(parts) :
        Len(parts[p]) > 1 => EncodedSize(parts[p]) <= SAFE_PAGE_SIZE

\* What remains of C15 without the empty part: no block is lost, duplicated
\* or moved, and every part of more than one block fits a page.
GroupingKeepsBlocksAndFits == Grouped => PartsKeepBlocks /\ SharedPartsFit

\* C15: the parts of split_and_save_subpages, one after another, give back
\* the blocks; no part is empty, so no empty subpage is written; and every
\* part of more than one block has an encoded size of at most
\* SAFE_PAGE_SIZE; for every sequence of block sizes, a first block larger
\* than the limit included.
C15_PartsPartitionBlocks ==
    Grouped =>
        /\ PartsKeepBlocks
        /\ \A p \in 1..Len(parts) : Len(parts[p]) > 0
        /\ \A k \in 1..Len(subpages) : Len(parts[subpages[k]]) > 0
        /\ SharedPartsFit

====
